---------------------------- MODULE Spec2Model ----------------------------
(***************************************************************************)
(* Model of the CoinstoreMM request signer and of the flows that call it.  *)
(*                                                                         *)
(*   src/src/index.ts      computeSignHeaders and the Express handlers     *)
(*   src/Readme.md         the same computeSignHeaders and the script main *)
(*   src/js/lasttrade.js   createSignedHeaders, the inline signer of main, *)
(*                         apiGet / apiPost / getBalances                  *)
(*                                                                         *)
(* Text is a sequence of one-character strings, so concatenation, decimal  *)
(* formatting and parsing are computed, not assumed.  HMAC-SHA256 is a     *)
(* free (collision-free) constructor over its key bytes and message.       *)
(* Timestamps are small integers around the 30000 ms bucket boundaries     *)
(* (TLC integers are 32 bit, a 13-digit epoch value does not fit).         *)
(***************************************************************************)
EXTENDS Integers, Sequences, FiniteSets, TLC

VARIABLES
    API_KEY,      \* process.env.CS_API_KEY || ''
    API_SECRET,   \* process.env.CS_API_SECRET || ''
    now,          \* the wall clock Date.now() reads, in ms
    ticks,        \* how many times the clock advanced (bounded)
    frame,        \* the running synchronous signer call, or NoFrame
    history,      \* results of the signer calls made by the driver
    calls,        \* number of signer calls the driver started
    reqs,         \* the flows (HTTP handlers, script main) in flight
    outbound      \* HTTP requests issued to the exchange, in order

vars == <<API_KEY, API_SECRET, now, ticks, frame, history, calls, reqs, outbound>>

----------------------------------------------------------------------------
(* Bounds *)

\* Clock advances in a run
MaxTicks == 1
\* Direct signer calls in a run
MaxCalls == 2
\* Flows (handler activations, script runs) in a run
MaxReqs == 1
\* Flows in a run with several requests in at once
MaxConcurrent == 2

\* The most flows any run has
MaxFlows == IF MaxReqs > MaxConcurrent THEN MaxReqs ELSE MaxConcurrent

----------------------------------------------------------------------------
(* Text *)

Empty == <<>>

Digits == <<"0", "1", "2", "3", "4", "5", "6", "7", "8", "9">>

\* Number.prototype.toString / String(n) for a non-negative integer
RECURSIVE NumberToString(_)
NumberToString(n) ==
    IF n < 10 THEN <<Digits[n + 1]>>
    ELSE NumberToString(n \div 10) \o <<Digits[(n % 10) + 1]>>

\* The value of a decimal digit character
DigitValue(c) == CHOOSE d \in 0..9 : Digits[d + 1] = c

\* What the exchange does with X-CS-EXPIRES: parse the decimal text
RECURSIVE ParseDecimal(_)
ParseDecimal(s) ==
    IF Len(s) = 0 THEN 0
    ELSE 10 * ParseDecimal(SubSeq(s, 1, Len(s) - 1)) + DigitValue(s[Len(s)])

----------------------------------------------------------------------------
(* crypto *)

\* The bytes of a text in UTF-8: Buffer.from(text, 'utf8'), and what
\* crypto.createHmac and hmac.update do with a string argument
Utf8(text) == <<"utf8", text>>

\* crypto.createHmac('sha256', key).update(msg).digest('hex'):
\* lowercase hex text of the HMAC of msg under the key bytes
HmacSha256Hex(keyBytes, msg) == <<"hex", <<"hmac-sha256", keyBytes, Utf8(msg)>>>>

----------------------------------------------------------------------------
(* The signers *)

\* The three signing routines of the repository.  computeSignHeaders is
\* the routine of src/src/index.ts (src/Readme.md holds the same text);
\* createSignedHeaders and the inline code of main are in lasttrade.js.
Signers == {"computeSignHeaders", "createSignedHeaders", "main"}

\* const apiKey / secretKey of main in lasttrade.js (shortened)
MainApiKey == <<"a", "d", "5">>
MainSecretKey == <<"5", "0", "6">>

\* const payload = "symbol=PPOUSDT" of main in lasttrade.js
MainPayload ==
    <<"s", "y", "m", "b", "o", "l", "=", "P", "P", "O", "U", "S", "D", "T">>

\* The credentials a signer reads
KeyOf(fn) == IF fn = "main" THEN MainApiKey ELSE API_KEY
SecretOf(fn) == IF fn = "main" THEN MainSecretKey ELSE API_SECRET

\* The width of a time bucket in ms
BucketMs == 30000

\* if (!API_KEY || !API_SECRET)
MissingCredentialsAnd == API_KEY = Empty /\ API_SECRET = Empty
MissingCredentialsNever == FALSE
MissingCredentials == API_KEY = Empty \/ API_SECRET = Empty

\* Math.floor(expires / 30000)
TimeBucketPerMs(expires) == expires
TimeBucket(expires) == expires \div BucketMs

\* The timestamp the bucket is computed from: the constant expires
BucketSourceRereads(f) == now
BucketSource(f) == f.expires

\* `${queryString}${body}`
PayloadSwapped(queryString, body) == body \o queryString
PayloadBodyOnly(queryString, body) == body
Payload(queryString, body) == queryString \o body

\* String(expires) / expires.toString() in the returned headers
ExpiresHeaderRereads(f) == NumberToString(now)
ExpiresHeader(f) == NumberToString(f.expires)

\* Only computeSignHeaders starts with the credentials check
EntryPc(fn) == IF fn = "computeSignHeaders" THEN "guard" ELSE "clock"

NoHeaders ==
    [XCSAPIKEY |-> Empty, XCSEXPIRES |-> Empty, XCSSIGN |-> Empty,
     ContentType |-> ""]

NoFrame ==
    [pc |-> "none", fn |-> "", owner |-> 0, queryString |-> Empty,
     body |-> Empty, expires |-> 0, timeBucket |-> Empty, key |-> Empty,
     payload |-> Empty, sign |-> Empty, clockReads |-> 0, hmacs |-> 0,
     headers |-> NoHeaders]

\* A call of signer fn by `owner` with its two arguments
NewFrame(fn, owner, queryString, body) ==
    [NoFrame EXCEPT !.pc = EntryPc(fn), !.fn = fn, !.owner = owner,
                    !.queryString = queryString, !.body = body]

\* What a finished call hands back to its caller: the headers or the
\* thrown error, with the record of what the call did
Result(f) ==
    [fn |-> f.fn, queryString |-> f.queryString, body |-> f.body,
     threw |-> (f.pc = "threw"), expires |-> f.expires,
     clockReads |-> f.clockReads, hmacs |-> f.hmacs, headers |-> f.headers]

\* if (!API_KEY || !API_SECRET) throw new Error(...)
SignerGuard ==
    /\ frame.pc = "guard"
    /\ frame' = [frame EXCEPT !.pc = IF MissingCredentials THEN "threw"
                                      ELSE "clock"]
    /\ UNCHANGED <<API_KEY, API_SECRET, now, ticks, history, calls, reqs,
                   outbound>>

\* const expires = Date.now()
SignerClock ==
    /\ frame.pc = "clock"
    /\ frame' = [frame EXCEPT !.pc = "derive", !.expires = now,
                              !.clockReads = @ + 1]
    /\ UNCHANGED <<API_KEY, API_SECRET, now, ticks, history, calls, reqs,
                   outbound>>

\* timeBucket = Math.floor(expires / 30000).toString();
\* key = createHmac('sha256', API_SECRET).update(timeBucket).digest('hex')
SignerDeriveKey ==
    /\ frame.pc = "derive"
    /\ LET timeBucket == NumberToString(TimeBucket(BucketSource(frame)))
       IN frame' = [frame EXCEPT
                      !.pc = "sign",
                      !.timeBucket = timeBucket,
                      !.key = HmacSha256Hex(Utf8(SecretOf(frame.fn)),
                                            timeBucket),
                      !.hmacs = @ + 1]
    /\ UNCHANGED <<API_KEY, API_SECRET, now, ticks, history, calls, reqs,
                   outbound>>

\* payload = `${queryString}${body}`;
\* sign = createHmac('sha256', key).update(payload).digest('hex')
\* (main passes Buffer.from(key, "utf8"): the same bytes)
SignerSign ==
    /\ frame.pc = "sign"
    /\ LET payload == Payload(frame.queryString, frame.body)
       IN frame' = [frame EXCEPT
                      !.pc = "return",
                      !.payload = payload,
                      !.sign = HmacSha256Hex(Utf8(frame.key), payload),
                      !.hmacs = @ + 1]
    /\ UNCHANGED <<API_KEY, API_SECRET, now, ticks, history, calls, reqs,
                   outbound>>

\* return { 'X-CS-APIKEY': ..., 'X-CS-EXPIRES': ..., 'X-CS-SIGN': ...,
\*          'Content-Type': 'application/json' }
SignerReturn ==
    /\ frame.pc = "return"
    /\ frame' = [frame EXCEPT
                   !.pc = "done",
                   !.headers = [XCSAPIKEY |-> KeyOf(frame.fn),
                                XCSEXPIRES |-> ExpiresHeader(frame),
                                XCSSIGN |-> frame.sign,
                                ContentType |-> "application/json"]]
    /\ UNCHANGED <<API_KEY, API_SECRET, now, ticks, history, calls, reqs,
                   outbound>>

\* The steps of createSignedHeaders and of the inline code of main
CreateSignedHeadersStep ==
    \/ SignerClock
    \/ SignerDeriveKey
    \/ SignerSign
    \/ SignerReturn

\* The steps of computeSignHeaders: the credentials check, then the same
SignerStep == SignerGuard \/ CreateSignedHeadersStep

\* Time passes: Date.now() returns a later value
Tick ==
    /\ ticks < MaxTicks
    /\ now' = now + 1
    /\ ticks' = ticks + 1
    /\ UNCHANGED <<API_KEY, API_SECRET, frame, history, calls, reqs, outbound>>

----------------------------------------------------------------------------
(* A caller that invokes the signers directly with arbitrary arguments *)

\* Query strings and bodies the caller passes
QueryStrings == {Empty, <<"a">>, <<"a", "b">>}
Bodies == {Empty, <<"b">>}

\* The environment the process was started with
KeyValues == {Empty, <<"k">>}
SecretValues == {Empty, <<"s">>}

\* Clock values at start: the last millisecond of bucket 0 and the first
\* of bucket 1
StartTimes == {29999, 30000}

DriverCall(fn, queryString, body) ==
    /\ frame.pc = "none"
    /\ calls < MaxCalls
    /\ frame' = NewFrame(fn, 0, queryString, body)
    /\ calls' = calls + 1
    /\ UNCHANGED <<API_KEY, API_SECRET, now, ticks, history, reqs, outbound>>

DriverCollect ==
    /\ frame.pc \in {"done", "threw"}
    /\ frame.owner = 0
    /\ history' = history \cup {Result(frame)}
    /\ frame' = NoFrame
    /\ UNCHANGED <<API_KEY, API_SECRET, now, ticks, calls, reqs, outbound>>

DriverStep ==
    \/ \E queryString \in QueryStrings, body \in Bodies :
          \/ DriverCall("computeSignHeaders", queryString, body)
          \/ DriverCall("createSignedHeaders", queryString, body)
    \/ DriverCall("main", MainPayload, Empty)
    \/ DriverCollect

Init ==
    /\ API_KEY \in KeyValues
    /\ API_SECRET \in SecretValues
    /\ now \in StartTimes
    /\ ticks = 0
    /\ frame = NoFrame
    /\ history = {}
    /\ calls = 0
    /\ reqs = <<>>
    /\ outbound = <<>>

Next == SignerStep \/ DriverStep \/ Tick

Spec == Init /\ [][Next]_vars

----------------------------------------------------------------------------
(* HTTP plumbing shared by the flows *)

\* How an axios call ends: a 2xx response, an HTTP error response, or no
\* response within timeout: 10000
Outcomes == {"ok", "404", "500", "timeout"}

\* Request parameter values (URL-safe characters, which URLSearchParams
\* leaves as they are)
SymbolValues == {Empty, <<"S">>}
LimitValues == {Empty, <<"5">>}

SymbolKey == <<"s", "y", "m", "b", "o", "l">>
LimitKey == <<"l", "i", "m", "i", "t">>

\* new URLSearchParams(params).toString() for params given as a sequence
\* of <<key, value>> pairs: key=value joined by &
RECURSIVE SearchParams(_)
SearchParams(params) ==
    IF Len(params) = 0 THEN Empty
    ELSE LET last == params[Len(params)]
             init == SubSeq(params, 1, Len(params) - 1)
         IN (IF Len(init) = 0 THEN Empty ELSE SearchParams(init) \o <<"&">>)
               \o last[1] \o <<"=">> \o last[2]

\* symbol ? { symbol } : {}
SymbolParams(symbol) ==
    IF symbol = Empty THEN <<>> ELSE <<<<SymbolKey, symbol>>>>

\* if (req.query.symbol) params.symbol = ...; if (req.query.limit) ...
TradeParams(symbol, limit) ==
    SymbolParams(symbol)
       \o (IF limit = Empty THEN <<>> ELSE <<<<LimitKey, limit>>>>)

\* A flow: one handler activation or one run of a script
NewReq(kind) ==
    [kind |-> kind, pc |-> "sign", symbol |-> Empty, limit |-> Empty,
     bodyText |-> Empty, sig |-> Result(NoFrame), signed |-> 1,
     balances |-> "none", primary |-> "none", fallback |-> "none",
     responses |-> <<>>, exitCode |-> 0]

\* res.json(data) / res.status(500).json({ error ... })
Respond(q, status, kind) ==
    [q EXCEPT !.responses = Append(@, [status |-> status, kind |-> kind])]

\* try { ...; res.json(data) } catch { res.status(500).json(...) } once the
\* awaited call ended with outcome o
RespondOutcome(q, o) ==
    IF o = "ok" THEN Respond(q, 200, "data") ELSE Respond(q, 500, "error")

\* The request axios sends, with the headers the signer just returned
HttpRequest(r, method, path, query, body) ==
    [by |-> r, method |-> method, path |-> path, query |-> query,
     headers |-> frame.headers, body |-> body]

\* A flow of kind `kind` begins and runs into its first signer call, in a
\* run of at most `max` flows
Begin(max, kind, fn, symbol, limit, bodyText, queryString, body) ==
    /\ frame.pc = "none"
    /\ Len(reqs) < max
    /\ reqs' = Append(reqs, [NewReq(kind) EXCEPT !.symbol = symbol,
                                                 !.limit = limit,
                                                 !.bodyText = bodyText])
    /\ frame' = NewFrame(fn, Len(reqs) + 1, queryString, body)
    /\ UNCHANGED <<API_KEY, API_SECRET, now, ticks, history, calls, outbound>>

\* The signer call of flow r at `pc` has ended: a thrown error leaves the
\* flow as `thrown`; returned headers go out with the request and the flow
\* awaits the response at `awaitPc`
Signed(r, pc, awaitPc, thrown, method, path, query, body) ==
    /\ r \in 1..Len(reqs)
    /\ reqs[r].pc = pc
    /\ frame.owner = r
    /\ frame.pc \in {"done", "threw"}
    /\ IF frame.pc = "threw"
       THEN /\ reqs' = [reqs EXCEPT ![r] = thrown]
            /\ UNCHANGED outbound
       ELSE /\ reqs' = [reqs EXCEPT ![r].pc = awaitPc,
                                     ![r].sig = Result(frame)]
            /\ outbound' = Append(outbound,
                                  HttpRequest(r, method, path, query, body))
    /\ frame' = NoFrame
    /\ UNCHANGED <<API_KEY, API_SECRET, now, ticks, history, calls>>

\* Flow r, awaiting at `pc`, resumes as `next` (no signer call running:
\* the signer is synchronous and node runs one callback at a time)
Resume(r, pc, next) ==
    /\ r \in 1..Len(reqs)
    /\ reqs[r].pc = pc
    /\ frame.pc = "none"
    /\ reqs' = [reqs EXCEPT ![r] = next]
    /\ UNCHANGED <<API_KEY, API_SECRET, now, ticks, frame, history, calls,
                   outbound>>

----------------------------------------------------------------------------
(* src/src/index.ts: the Express handlers *)

\* app.get('/api/balances'): getBalances() up to its signer call
BalancesBegin(max) ==
    Begin(max, "/api/balances", "computeSignHeaders", Empty, Empty, Empty,
          Empty, Empty)

\* getBalances(): the signer threw (caught, 500) or axios.get goes out
BalancesSigned(r) ==
    /\ r \in 1..Len(reqs)
    /\ reqs[r].kind = "/api/balances"
    /\ Signed(r, "sign", "await",
              Respond([reqs[r] EXCEPT !.pc = "done", !.sig = Result(frame),
                                      !.primary = "threw"], 500, "error"),
              "GET", "/spot/accountList", Empty, Empty)

\* await getBalances() ended: res.json(balances) or the catch
BalancesSettled(r) ==
    \E o \in Outcomes :
       /\ r \in 1..Len(reqs)
       /\ reqs[r].kind = "/api/balances"
       /\ Resume(r, "await",
                 RespondOutcome([reqs[r] EXCEPT !.pc = "done",
                                                !.primary = o], o))

\* app.get('/api/trades'): getLatestTrades(params) up to its signer call
TradesBegin(max) ==
    \E symbol \in SymbolValues, limit \in LimitValues :
       Begin(max, "/api/trades", "computeSignHeaders", symbol, limit, Empty,
             SearchParams(TradeParams(symbol, limit)), Empty)

TradesSigned(r) ==
    /\ r \in 1..Len(reqs)
    /\ reqs[r].kind = "/api/trades"
    /\ Signed(r, "sign", "await",
              Respond([reqs[r] EXCEPT !.pc = "done", !.sig = Result(frame),
                                      !.primary = "threw"], 500, "error"),
              "GET", "/trade/order/trades/latest",
              SearchParams(TradeParams(reqs[r].symbol, reqs[r].limit)),
              Empty)

TradesSettled(r) ==
    \E o \in Outcomes :
       /\ r \in 1..Len(reqs)
       /\ reqs[r].kind = "/api/trades"
       /\ Resume(r, "await",
                 RespondOutcome([reqs[r] EXCEPT !.pc = "done",
                                                !.primary = o], o))

\* What the outer catch of /api/orders does to the response before it
\* tries the fallback endpoint: it only logs
OrdersCatchResponds(q) == Respond(q, 500, "error")
OrdersCatch(q) == q

\* app.get('/api/orders'): getCurrentOrdersV2(...) up to its signer call
OrdersBegin(max) ==
    \E symbol \in SymbolValues :
       Begin(max, "/api/orders", "computeSignHeaders", symbol, Empty, Empty,
             SearchParams(SymbolParams(symbol)), Empty)

\* getCurrentOrdersV2: axios.get goes out, or the signer threw and the
\* catch runs into the signer call of the fallback
OrdersSigned(r) ==
    /\ r \in 1..Len(reqs)
    /\ reqs[r].kind = "/api/orders"
    /\ reqs[r].pc = "sign"
    /\ frame.owner = r
    /\ frame.pc \in {"done", "threw"}
    /\ IF frame.pc = "threw"
       THEN /\ reqs' = [reqs EXCEPT
                          ![r] = OrdersCatch([@ EXCEPT !.pc = "fbSign",
                                                       !.sig = Result(frame),
                                                       !.primary = "threw",
                                                       !.signed = @ + 1])]
            /\ frame' = NewFrame("computeSignHeaders", r,
                                 SearchParams(SymbolParams(reqs[r].symbol)),
                                 Empty)
            /\ UNCHANGED outbound
       ELSE /\ reqs' = [reqs EXCEPT ![r].pc = "await",
                                     ![r].sig = Result(frame)]
            /\ outbound' = Append(outbound,
                  HttpRequest(r, "GET", "/trade/order/current/v2",
                              SearchParams(SymbolParams(reqs[r].symbol)),
                              Empty))
            /\ frame' = NoFrame
    /\ UNCHANGED <<API_KEY, API_SECRET, now, ticks, history, calls>>

\* await getCurrentOrdersV2 ended: res.json(orders), or the catch runs
\* into the signer call of the fallback, whatever the error was
OrdersSettled(r) ==
    \E o \in Outcomes :
       /\ r \in 1..Len(reqs)
       /\ reqs[r].kind = "/api/orders"
       /\ reqs[r].pc = "await"
       /\ frame.pc = "none"
       /\ IF o = "ok"
          THEN /\ reqs' = [reqs EXCEPT
                             ![r] = Respond([@ EXCEPT !.pc = "done",
                                                      !.primary = o],
                                            200, "data")]
               /\ UNCHANGED frame
          ELSE /\ reqs' = [reqs EXCEPT
                             ![r] = OrdersCatch([@ EXCEPT !.pc = "fbSign",
                                                          !.primary = o,
                                                          !.signed = @ + 1])]
               /\ frame' = NewFrame("computeSignHeaders", r,
                                    SearchParams(SymbolParams(reqs[r].symbol)),
                                    Empty)
       /\ UNCHANGED <<API_KEY, API_SECRET, now, ticks, history, calls,
                      outbound>>

\* The fallback: its signer threw (inner catch, 500) or axios.get goes out
\* to /trade/order/current
OrdersFallbackSigned(r) ==
    /\ r \in 1..Len(reqs)
    /\ reqs[r].kind = "/api/orders"
    /\ Signed(r, "fbSign", "fbAwait",
              Respond([reqs[r] EXCEPT !.pc = "done", !.sig = Result(frame),
                                      !.fallback = "threw"], 500, "error"),
              "GET", "/trade/order/current",
              SearchParams(SymbolParams(reqs[r].symbol)), Empty)

\* The fallback request ended: res.json(response.data) or the inner catch
OrdersFallbackSettled(r) ==
    \E o \in Outcomes :
       /\ r \in 1..Len(reqs)
       /\ reqs[r].kind = "/api/orders"
       /\ Resume(r, "fbAwait",
                 RespondOutcome([reqs[r] EXCEPT !.pc = "done",
                                                !.fallback = o], o))

\* The steps of the /api/orders handler once a request is in
OrdersStep ==
    \E r \in 1..MaxFlows :
       \/ OrdersSigned(r)
       \/ OrdersSettled(r)
       \/ OrdersFallbackSigned(r)
       \/ OrdersFallbackSettled(r)

\* The handlers once a request is in
ServerStep ==
    \/ \E r \in 1..MaxFlows :
          \/ BalancesSigned(r)
          \/ BalancesSettled(r)
          \/ TradesSigned(r)
          \/ TradesSettled(r)
    \/ OrdersStep

\* A request arrives at one of the three routes
ServerBegin(max) ==
    BalancesBegin(max) \/ TradesBegin(max) \/ OrdersBegin(max)

ServerNext == ServerBegin(MaxReqs) \/ ServerStep \/ SignerStep \/ Tick

\* node runs every ready callback, the signer runs to its end, and every
\* axios call ends (response, error or the 10000 ms timeout)
ServerSpec == Init /\ [][ServerNext]_vars /\ WF_vars(ServerStep \/ SignerStep)

\* The same handlers with several requests in at once
ConcurrentNext ==
    ServerBegin(MaxConcurrent) \/ ServerStep \/ SignerStep \/ Tick

ConcurrentSpec == Init /\ [][ConcurrentNext]_vars

----------------------------------------------------------------------------
(* src/Readme.md: the script main *)

\* if (e?.response?.status === 404): only an HTTP 404 response; a thrown
\* signer error and a timeout carry no response
IsNotFound(o) == o = "404"

\* main(): getBalances() up to its signer call; symbol is CS_SYMBOL
MainBegin(max) ==
    \E symbol \in SymbolValues :
       Begin(max, "Readme main", "computeSignHeaders", symbol, Empty, Empty,
             Empty, Empty)

\* The catch of main for an error that is not a 404: log, exitCode = 1
MainFailed(q) == [q EXCEPT !.pc = "done", !.exitCode = 1]

\* getBalances(): the signer threw, or axios.get goes out
MainBalancesSigned(r) ==
    /\ r \in 1..Len(reqs)
    /\ reqs[r].kind = "Readme main"
    /\ Signed(r, "sign", "await",
              MainFailed([reqs[r] EXCEPT !.sig = Result(frame),
                                         !.balances = "threw"]),
              "GET", "/spot/accountList", Empty, Empty)

\* await getBalances() ended: on success getCurrentOrdersV2 runs into its
\* signer call; on a 404 the catch runs into the signer call of the
\* fallback; any other error ends the script
MainBalancesSettled(r) ==
    \E o \in Outcomes :
       /\ r \in 1..Len(reqs)
       /\ reqs[r].kind = "Readme main"
       /\ reqs[r].pc = "await"
       /\ frame.pc = "none"
       /\ IF o = "ok" \/ IsNotFound(o)
          THEN /\ reqs' = [reqs EXCEPT
                             ![r].pc = IF o = "ok" THEN "ordSign"
                                       ELSE "fbSign",
                             ![r].balances = o,
                             ![r].signed = @ + 1]
               /\ frame' = NewFrame("computeSignHeaders", r,
                                    SearchParams(SymbolParams(reqs[r].symbol)),
                                    Empty)
          ELSE /\ reqs' = [reqs EXCEPT
                             ![r] = MainFailed([@ EXCEPT !.balances = o])]
               /\ UNCHANGED frame
       /\ UNCHANGED <<API_KEY, API_SECRET, now, ticks, history, calls,
                      outbound>>

\* getCurrentOrdersV2: the signer threw, or axios.get goes out
MainOrdersSigned(r) ==
    /\ r \in 1..Len(reqs)
    /\ reqs[r].kind = "Readme main"
    /\ Signed(r, "ordSign", "ordAwait",
              MainFailed([reqs[r] EXCEPT !.sig = Result(frame),
                                         !.primary = "threw"]),
              "GET", "/trade/order/current/v2",
              SearchParams(SymbolParams(reqs[r].symbol)), Empty)

\* await getCurrentOrdersV2 ended: print the orders, or on a 404 run into
\* the signer call of the fallback, or end with exitCode = 1
MainOrdersSettled(r) ==
    \E o \in Outcomes :
       /\ r \in 1..Len(reqs)
       /\ reqs[r].kind = "Readme main"
       /\ reqs[r].pc = "ordAwait"
       /\ frame.pc = "none"
       /\ IF IsNotFound(o)
          THEN /\ reqs' = [reqs EXCEPT ![r].pc = "fbSign",
                                        ![r].primary = o,
                                        ![r].signed = @ + 1]
               /\ frame' = NewFrame("computeSignHeaders", r,
                                    SearchParams(SymbolParams(reqs[r].symbol)),
                                    Empty)
          ELSE /\ reqs' = [reqs EXCEPT
                             ![r] = IF o = "ok"
                                    THEN [@ EXCEPT !.pc = "done",
                                                   !.primary = o]
                                    ELSE MainFailed([@ EXCEPT !.primary = o])]
               /\ UNCHANGED frame
       /\ UNCHANGED <<API_KEY, API_SECRET, now, ticks, history, calls,
                      outbound>>

\* The fallback: its signer threw (exitCode = 1) or axios.get goes out to
\* /trade/order/current
MainFallbackSigned(r) ==
    /\ r \in 1..Len(reqs)
    /\ reqs[r].kind = "Readme main"
    /\ Signed(r, "fbSign", "fbAwait",
              MainFailed([reqs[r] EXCEPT !.sig = Result(frame),
                                         !.fallback = "threw"]),
              "GET", "/trade/order/current",
              SearchParams(SymbolParams(reqs[r].symbol)), Empty)

\* The fallback request ended: print the data, or exitCode = 1
MainFallbackSettled(r) ==
    \E o \in Outcomes :
       /\ r \in 1..Len(reqs)
       /\ reqs[r].kind = "Readme main"
       /\ Resume(r, "fbAwait",
                 IF o = "ok"
                 THEN [reqs[r] EXCEPT !.pc = "done", !.fallback = o]
                 ELSE MainFailed([reqs[r] EXCEPT !.fallback = o]))

MainStep ==
    \E r \in 1..MaxFlows :
       \/ MainBalancesSigned(r)
       \/ MainBalancesSettled(r)
       \/ MainOrdersSigned(r)
       \/ MainOrdersSettled(r)
       \/ MainFallbackSigned(r)
       \/ MainFallbackSettled(r)

----------------------------------------------------------------------------
(* src/js/lasttrade.js: the script main and the Express handlers *)

\* Request bodies of the POST routes, as sequences of <<key, value>> pairs
BodyObjects == {<<>>, <<<<SymbolKey, <<"S">>>>>>}

\* JSON.stringify(obj) for an object of string values
RECURSIVE JsonMembers(_)
JsonMembers(obj) ==
    IF Len(obj) = 0 THEN Empty
    ELSE LET last == obj[Len(obj)]
             init == SubSeq(obj, 1, Len(obj) - 1)
         IN (IF Len(init) = 0 THEN Empty ELSE JsonMembers(init) \o <<",">>)
               \o <<"\"">> \o last[1] \o <<"\"", ":", "\"">> \o last[2]
               \o <<"\"">>

JsonStringify(obj) == <<"{">> \o JsonMembers(obj) \o <<"}">>

\* The routes served through apiGet and through apiPost
ProxyGetRoutes == {"lasttrade /api/orders", "lasttrade /api/trades"}
ProxyPostRoutes == {"lasttrade /api/order/place", "lasttrade /api/order/cancel"}

\* The exchange path each flow of lasttrade.js calls
ProxyPath(kind) ==
    CASE kind = "lasttrade main" -> "/trade/match/accountMatches"
      [] kind = "lasttrade /api/balances" -> "/spot/accountList"
      [] kind = "lasttrade /api/orders" -> "/v2/trade/order/active"
      [] kind = "lasttrade /api/trades" -> "/trade/match/accountMatches"
      [] kind = "lasttrade /api/order/place" -> "/trade/order/place"
      [] kind = "lasttrade /api/order/cancel" -> "/trade/order/cancel"

\* axios.get for main and apiGet, axios.post for getBalances and apiPost
ProxyMethod(kind) ==
    IF kind \in ProxyGetRoutes \cup {"lasttrade main"} THEN "GET" ELSE "POST"

\* main() runs when the module loads: its inline signing code
ProxyMainBegin(max) ==
    Begin(max, "lasttrade main", "main", Empty, Empty, Empty, MainPayload,
          Empty)

\* getBalances(): bodyStr = JSON.stringify({}) is signed and {} is posted
ProxyBalancesBegin(max) ==
    Begin(max, "lasttrade /api/balances", "createSignedHeaders", Empty, Empty,
          JsonStringify(<<>>), Empty, JsonStringify(<<>>))

\* apiGet(path, params): the query string is signed with an empty body
ProxyGetBegin(max) ==
    \E symbol \in SymbolValues :
       \/ Begin(max, "lasttrade /api/orders", "createSignedHeaders", symbol,
                Empty, Empty, SearchParams(SymbolParams(symbol)), Empty)
       \/ \E limit \in LimitValues :
             Begin(max, "lasttrade /api/trades", "createSignedHeaders", symbol,
                   limit, Empty, SearchParams(TradeParams(symbol, limit)),
                   Empty)

\* apiPost(path, bodyObj): params = {}, JSON.stringify(bodyObj) is signed
ProxyPostBegin(max) ==
    \E kind \in ProxyPostRoutes, obj \in BodyObjects :
       Begin(max, kind, "createSignedHeaders", Empty, Empty, JsonStringify(obj),
             SearchParams(<<>>), JsonStringify(obj))

\* createSignedHeaders (or the inline code of main) returned: the request
\* goes out with its headers
ProxySigned(r) ==
    /\ r \in 1..Len(reqs)
    /\ reqs[r].kind \in ProxyGetRoutes \cup ProxyPostRoutes
                          \cup {"lasttrade main", "lasttrade /api/balances"}
    /\ Signed(r, "sign", "await",
              Respond([reqs[r] EXCEPT !.pc = "done", !.sig = Result(frame),
                                      !.primary = "threw"], 500, "error"),
              ProxyMethod(reqs[r].kind), ProxyPath(reqs[r].kind),
              IF reqs[r].kind = "lasttrade main" THEN MainPayload
              ELSE SearchParams(TradeParams(reqs[r].symbol, reqs[r].limit)),
              reqs[r].bodyText)

\* The awaited call ended.  A handler answers res.json(data) or the 500 of
\* its catch; main only logs
ProxySettled(r) ==
    \E o \in Outcomes :
       /\ r \in 1..Len(reqs)
       /\ reqs[r].kind \in ProxyGetRoutes \cup ProxyPostRoutes
                             \cup {"lasttrade main", "lasttrade /api/balances"}
       /\ Resume(r, "await",
                 IF reqs[r].kind = "lasttrade main"
                 THEN [reqs[r] EXCEPT !.pc = "done", !.primary = o]
                 ELSE RespondOutcome([reqs[r] EXCEPT !.pc = "done",
                                                     !.primary = o], o))

ProxyBegin(max) ==
    \/ ProxyMainBegin(max)
    \/ ProxyBalancesBegin(max)
    \/ ProxyGetBegin(max)
    \/ ProxyPostBegin(max)

ProxyStep == \E r \in 1..MaxFlows : ProxySigned(r) \/ ProxySettled(r)

----------------------------------------------------------------------------
(* The programs of the repository *)

\* lasttrade.js on its own
ProxyNext ==
    ProxyBegin(MaxReqs) \/ ProxyStep \/ CreateSignedHeadersStep \/ Tick

ProxySpec == Init /\ [][ProxyNext]_vars

\* The two current-orders flows: /api/orders of index.ts and main of
\* Readme.md
OrdersNext ==
    \/ OrdersBegin(MaxReqs)
    \/ OrdersStep
    \/ MainBegin(MaxReqs)
    \/ MainStep
    \/ SignerStep
    \/ Tick

OrdersSpec == Init /\ [][OrdersNext]_vars

----------------------------------------------------------------------------
(* Properties of the signers *)

\* The calls that have ended: those collected and the one just finished
Finished ==
    history \cup (IF frame.pc \in {"done", "threw"} THEN {Result(frame)}
                  ELSE {})

\* The calls that returned headers
Returned == {h \in Finished : ~h.threw}

\* The reference value of the header set for credentials, arguments and
\* timestamp t: the two-round HMAC written as one expression
ReferenceHeaders(apiKey, apiSecret, queryString, body, t) ==
    [XCSAPIKEY |-> apiKey,
     XCSEXPIRES |-> NumberToString(t),
     XCSSIGN |->
        HmacSha256Hex(
            Utf8(HmacSha256Hex(Utf8(apiSecret), NumberToString(t \div 30000))),
            queryString \o body),
     ContentType |-> "application/json"]

\* The decimal text that keyed the derived key of a sign header:
\* sign = hex(hmac(utf8(hex(hmac(utf8(secret), utf8(bucket)))), payload))
KeyedBucket(sign) == sign[2][2][2][2][3][2]

\* C1: computeSignHeaders raises an error and returns no headers whenever
\* API_KEY or API_SECRET is empty, whatever queryString and body are, and it
\* does so before it reads the clock or computes an HMAC.
C1_MissingCredentialsThrow ==
    (API_KEY = Empty \/ API_SECRET = Empty) =>
        /\ frame.fn = "computeSignHeaders" =>
              /\ frame.pc \in {"guard", "threw"}
              /\ frame.clockReads = 0
              /\ frame.hmacs = 0
        /\ \A h \in Finished :
              h.fn = "computeSignHeaders" =>
                 /\ h.threw
                 /\ h.headers = NoHeaders
                 /\ h.clockReads = 0
                 /\ h.hmacs = 0

\* A call of computeSignHeaders with only the key missing has thrown
C1_Witness ==
    /\ API_KEY = Empty
    /\ API_SECRET # Empty
    /\ \E h \in history :
          h.fn = "computeSignHeaders" /\ h.threw /\ h.queryString # Empty

\* C2: with a non-empty key and secret, computeSignHeaders and
\* createSignedHeaders return exactly the reference header set for their
\* arguments and the timestamp they read.
C2_HeadersMatchReference ==
    (API_KEY # Empty /\ API_SECRET # Empty) =>
        \A h \in Finished :
            h.fn \in {"computeSignHeaders", "createSignedHeaders"} =>
               /\ ~h.threw
               /\ h.headers = ReferenceHeaders(API_KEY, API_SECRET,
                                               h.queryString, h.body,
                                               h.expires)

\* Both routines returned headers for a query string and a body that are
\* both non-empty
C2_Witness ==
    /\ API_KEY # Empty
    /\ API_SECRET # Empty
    /\ \E h1, h2 \in history :
          /\ h1.fn = "computeSignHeaders"
          /\ h2.fn = "createSignedHeaders"
          /\ \A h \in {h1, h2} :
                ~h.threw /\ h.queryString # Empty /\ h.body # Empty

\* C3: in every returned header set the bucket that keyed the derived key
\* is floor(X-CS-EXPIRES / 30000), and the call read the clock once,
\* however the clock advanced while the call ran.
C3_BucketMatchesExpires ==
    \A h \in Returned :
        /\ h.clockReads = 1
        /\ ParseDecimal(KeyedBucket(h.headers.XCSSIGN))
             = ParseDecimal(h.headers.XCSEXPIRES) \div 30000

\* A call returned headers after the clock moved into the next bucket
\* behind its back
C3_Witness ==
    /\ frame.pc = "done"
    /\ now \div 30000 # frame.expires \div 30000
    /\ \E h \in history : ~h.threw /\ h.fn # frame.fn

\* C4: for equal credentials, queryString and body the sign headers of two
\* calls are equal exactly when their timestamps lie in the same 30000 ms
\* bucket; timestamps that differ give different X-CS-EXPIRES.
C4_SignDependsOnBucketOnly ==
    \A h1, h2 \in Returned :
        (/\ KeyOf(h1.fn) = KeyOf(h2.fn)
         /\ SecretOf(h1.fn) = SecretOf(h2.fn)
         /\ h1.queryString = h2.queryString
         /\ h1.body = h2.body) =>
            /\ (h1.headers.XCSSIGN = h2.headers.XCSSIGN)
                  <=> (h1.expires \div 30000 = h2.expires \div 30000)
            /\ (h1.expires # h2.expires)
                  => (h1.headers.XCSEXPIRES # h2.headers.XCSEXPIRES)

\* Two calls with the same arguments in one bucket, a millisecond apart
C4_Witness ==
    \E h1, h2 \in history :
        /\ ~h1.threw /\ ~h2.threw
        /\ h1.fn = h2.fn
        /\ h1.queryString = h2.queryString
        /\ h1.body = h2.body
        /\ h1.expires # h2.expires
        /\ h1.expires \div 30000 = h2.expires \div 30000

\* Calls of one routine with the same arguments at the same timestamp end
\* the same way
C5_SameInputsSameResult ==
    \A h1, h2 \in Finished :
        (/\ h1.fn = h2.fn
         /\ h1.queryString = h2.queryString
         /\ h1.body = h2.body
         /\ h1.expires = h2.expires) =>
            /\ h1.threw = h2.threw
            /\ h1.headers = h2.headers

\* C5: the signers are deterministic and keep no state: calls with the same
\* credentials, arguments and timestamp return identical headers, and no
\* step changes API_KEY or API_SECRET.
C5_Deterministic ==
    /\ []C5_SameInputsSameResult
    /\ [][API_KEY' = API_KEY /\ API_SECRET' = API_SECRET]_vars

\* Two calls were made and collected, and their results are one and the
\* same header set
C5_Witness ==
    /\ calls = 2
    /\ frame.pc = "none"
    /\ \E h \in history : history = {h} /\ ~h.threw

----------------------------------------------------------------------------
(* Properties of the index.ts handlers *)

\* The flows whose signed request is out and not yet answered
InFlight == {r \in 1..Len(reqs) : reqs[r].pc \in {"await", "fbAwait"}}

\* The (X-CS-EXPIRES, X-CS-SIGN) pair a flow's signer call returned
SignedPair(r) ==
    <<reqs[r].sig.headers.XCSEXPIRES, reqs[r].sig.headers.XCSSIGN>>

\* C6 as stated: any two concurrent signed requests carry distinct
\* (X-CS-EXPIRES, X-CS-SIGN) pairs.
C6_ConcurrentPairsDistinct ==
    \A r1, r2 \in InFlight : r1 # r2 => SignedPair(r1) # SignedPair(r2)

\* C6 amended: each call reads the clock once, for itself, and two
\* concurrent calls receive the same pair exactly when they read the same
\* millisecond and sign the same payload; otherwise the pairs differ.
C6_PairsDistinctUnlessSameInstant ==
    \A r1, r2 \in InFlight :
        /\ reqs[r1].sig.clockReads = 1
        /\ r1 # r2 =>
              ((SignedPair(r1) = SignedPair(r2))
                 <=> /\ reqs[r1].sig.expires = reqs[r2].sig.expires
                     /\ reqs[r1].sig.queryString \o reqs[r1].sig.body
                          = reqs[r2].sig.queryString \o reqs[r2].sig.body)

\* Two requests are out at once, signed a millisecond apart in the same
\* bucket over the same payload: same sign header, different pairs
C6_Witness ==
    \E r1, r2 \in InFlight :
        /\ reqs[r1].sig.expires # reqs[r2].sig.expires
        /\ reqs[r1].sig.queryString = reqs[r2].sig.queryString
        /\ reqs[r1].sig.headers.XCSSIGN = reqs[r2].sig.headers.XCSSIGN
        /\ SignedPair(r1) # SignedPair(r2)

\* C7: with API_KEY or API_SECRET empty, no handler of index.ts sends a
\* request to the exchange, on the primary or the fallback path, and every
\* request it answers is answered once with a 500.
C7_NoRequestWithoutCredentials ==
    (API_KEY = Empty \/ API_SECRET = Empty) =>
        /\ outbound = <<>>
        /\ \A r \in 1..Len(reqs) :
              /\ reqs[r].pc \notin {"await", "fbAwait"}
              /\ \A i \in 1..Len(reqs[r].responses) :
                    reqs[r].responses[i].status = 500
              /\ reqs[r].pc = "done" => Len(reqs[r].responses) = 1

\* Without a secret, an /api/orders request went through the signer calls
\* of the primary and of the fallback and was answered
C7_Witness ==
    /\ API_KEY # Empty
    /\ API_SECRET = Empty
    /\ \E r \in 1..Len(reqs) :
          /\ reqs[r].kind = "/api/orders"
          /\ reqs[r].pc = "done"
          /\ reqs[r].signed = 2
          /\ reqs[r].responses = <<[status |-> 500, kind |-> "error"]>>

\* A request has at most one response; an ended one has exactly one, the
\* upstream data when the last exchange call succeeded and a 500 otherwise
OneResponse(r) ==
    /\ Len(reqs[r].responses) <= 1
    /\ reqs[r].pc = "done" =>
          /\ Len(reqs[r].responses) = 1
          /\ reqs[r].responses[1] =
                IF reqs[r].primary = "ok" \/ reqs[r].fallback = "ok"
                THEN [status |-> 200, kind |-> "data"]
                ELSE [status |-> 500, kind |-> "error"]

\* C10: every request to /api/balances, /api/orders or /api/trades
\* eventually has exactly one response, the upstream data or a 500, never
\* none and never two, whatever the signer and the exchange do: no request
\* ever has two, and each request that arrives is, from some point on,
\* ended with exactly one.
C10_ExactlyOneResponse ==
    /\ [](\A r \in 1..Len(reqs) : OneResponse(r))
    /\ \A r \in 1..MaxFlows :
          <>[](Len(reqs) >= r =>
                  (reqs[r].pc = "done" /\ Len(reqs[r].responses) = 1))

\* An /api/orders request whose primary call timed out and whose fallback
\* call failed as well was answered, once, with a 500
C10_Witness ==
    \E r \in 1..Len(reqs) :
        /\ reqs[r].kind = "/api/orders"
        /\ reqs[r].pc = "done"
        /\ reqs[r].primary = "timeout"
        /\ reqs[r].fallback = "404"
        /\ reqs[r].responses = <<[status |-> 500, kind |-> "error"]>>

----------------------------------------------------------------------------
(* Properties of lasttrade.js and of the current-orders flows *)

\* The secret that keyed the derived key of a sign header
KeyedSecret(sign) == sign[2][2][2][2][2][2]

\* C8: with API_KEY or API_SECRET empty, createSignedHeaders returns no
\* headers, so apiGet, apiPost and getBalances of lasttrade.js send no
\* request with an empty X-CS-APIKEY or a signature keyed by an empty secret.
C8_NoHeadersWithoutCredentials ==
    (API_KEY = Empty \/ API_SECRET = Empty) =>
        /\ ~(frame.fn = "createSignedHeaders" /\ frame.pc = "done")
        /\ \A i \in 1..Len(outbound) :
              reqs[outbound[i].by].kind # "lasttrade main" =>
                 /\ outbound[i].headers.XCSAPIKEY # Empty
                 /\ KeyedSecret(outbound[i].headers.XCSSIGN) # Empty

\* C9: a current-orders flow requests /trade/order/current only after its
\* request to /trade/order/current/v2 failed with a 404; after any other
\* failure of the primary the alternate endpoint is not requested.
C9_FallbackOnlyAfterPrimary404 ==
    \A i \in 1..Len(outbound) :
        outbound[i].path = "/trade/order/current" =>
           /\ reqs[outbound[i].by].primary = "404"
           /\ \E j \in 1..(i - 1) :
                 /\ outbound[j].by = outbound[i].by
                 /\ outbound[j].path = "/trade/order/current/v2"

====
